---------------------------- MODULE Spec2Model ----------------------------
(***************************************************************************)
(* A model of notion-agent-hub's two scripts, scripts/notion_client.py and *)
(* scripts/create_project.py: target resolution, template loading and      *)
(* placeholder substitution, and the order of the effects of one CLI       *)
(* invocation.                                                             *)
(*                                                                         *)
(* Python strings are sequences of one-character strings, so that          *)
(* str.replace, the hex test and ', '.join are computed, not assumed.      *)
(* JSON trees are records of one shape (t, s, n, kids, keys); Python       *)
(* objects live in a heap (a sequence of nodes, an address is an index),   *)
(* so that mutation and aliasing are visible.                              *)
(***************************************************************************)
EXTENDS Naturals, Sequences, FiniteSets

VARIABLES
    cmd,        \* the entry point / subcommand of this invocation
    token,      \* NOTION_API_TOKEN in the environment: "unset", "empty" or "set"
    target,     \* --target / --parent as typed
    cfg,        \* notion-config.json on disk: [exists, hasTargets, targets]
    args,       \* the other command-line arguments
    tfile,      \* templates/<name>.json on disk: [exists, doc]
    pc,         \* position in the handler
    events,     \* the effects so far, in order
    status,     \* "running", "ok" (exit 0) or "failed" (non-zero exit / traceback)
    heap,       \* the Python objects allocated so far
    template,   \* address of the loaded template (0: none)
    body,       \* address of the request body (0: none)
    sent,       \* the keyword arguments handed to the API client, once sent
    repl,       \* the replacements mapping handed to replace_placeholders
    res         \* result of the last function application

vars == <<cmd, token, target, cfg, args, tfile, pc, events, status, heap,
          template, body, sent, repl, res>>

-----------------------------------------------------------------------------
(* Bounds of the model *)

\* most friendly names in the "targets" mapping of the configuration document
MaxTargets == 2

\* a string leaf of a template is the concatenation of at most this many pieces
MaxPieces == 2

-----------------------------------------------------------------------------
(* Strings *)

\* len(cleaned) == 32
HexLen == 32

\* "0123456789abcdef"
HexChars == {"0", "1", "2", "3", "4", "5", "6", "7", "8", "9",
             "a", "b", "c", "d", "e", "f"}

RepChar(c, n) == [i \in 1..n |-> c]

RECURSIVE StrReplace(_, _, _)
\* Python's s.replace(old, new) for a non-empty old: every occurrence, found
\* left to right, an occurrence starting only after the previous one ended.
StrReplace(s, old, new) ==
    IF Len(s) < Len(old) THEN s
    ELSE IF SubSeq(s, 1, Len(old)) = old
         THEN new \o StrReplace(SubSeq(s, Len(old) + 1, Len(s)), old, new)
         ELSE <<Head(s)>> \o StrReplace(Tail(s), old, new)

RECURSIVE StrJoin(_, _)
\* sep.join(parts)
StrJoin(sep, parts) ==
    IF parts = <<>> THEN <<>>
    ELSE IF Len(parts) = 1 THEN parts[1]
    ELSE parts[1] \o sep \o StrJoin(sep, Tail(parts))

\* s occurs in line
IsSubstring(s, line) ==
    \E i \in 1..(Len(line) + 1) :
        /\ i + Len(s) - 1 <= Len(line)
        /\ SubSeq(line, i, i + Len(s) - 1) = s

-----------------------------------------------------------------------------
(* Inputs: target names and configuration documents *)

Dash == <<"-">>
Empty == <<>>
Hex32 == RepChar("a", HexLen)
Uuid == <<"a", "1", "b", "2", "c", "3", "d", "4", "-", "e", "5", "f", "6", "-",
          "7", "8", "9", "0", "-", "a", "b", "c", "d", "-", "e", "f", "1", "2",
          "3", "4", "5", "6", "7", "8", "9", "0">>
ProjectDb == <<"p", "r", "o", "j", "e", "c", "t", "-", "d", "b">>
MissingTarget == <<"m", "i", "s", "s", "i", "n", "g", "-", "t", "a", "r", "g", "e", "t">>
Xyz == <<"x", "y", "z">>

\* what may be typed as --target / --parent
Names ==
    { Hex32, Uuid, Dash \o Hex32 \o Dash,          \* raw identifiers
      RepChar("a", HexLen - 1),                    \* too short
      RepChar("a", HexLen + 1),                    \* too long
      RepChar("a", HexLen - 1) \o <<"A">>,         \* upper-case hex digit
      RepChar("a", HexLen - 1) \o <<"g">>,         \* not a hex digit
      RepChar("a", HexLen - 1) \o Dash,            \* 31 digits and a dash
      ProjectDb, MissingTarget, Dash, Empty }

\* friendly names a configuration may define; Uuid is a key of raw shape
TargetKeys == { ProjectDb, Uuid, Xyz }

TargetIds == { Xyz, Hex32 }

TargetEntries == [name : TargetKeys, id : TargetIds]

\* the "targets" mapping, in the document's order; a JSON object's keys are
\* distinct once loaded
TargetMaps ==
    { m \in UNION { [1..n -> TargetEntries] : n \in 0..MaxTargets } :
        \A i, j \in 1..Len(m) : m[i].name = m[j].name => i = j }

NoTargets == <<>>

Configs ==
    { [exists |-> FALSE, hasTargets |-> FALSE, targets |-> NoTargets],
      [exists |-> TRUE,  hasTargets |-> FALSE, targets |-> NoTargets] }
    \cup { [exists |-> TRUE, hasTargets |-> TRUE, targets |-> m] : m \in TargetMaps }

-----------------------------------------------------------------------------
(* Target resolution *)

AvailablePrefix == <<"A", "v", "a", "i", "l", "a", "b", "l", "e", " ", "t", "a",
                     "r", "g", "e", "t", "s", ":", " ">>
CommaSpace == <<",", " ">>

\* targets.keys()
DictKeys(m) == [i \in 1..Len(m) |-> m[i].name]

\* name in targets
HasKey(m, name) == \E i \in 1..Len(m) : m[i].name = name

\* targets[name]
DictItem(m, name) == m[CHOOSE i \in 1..Len(m) : m[i].name = name]

\* one result shape for resolve_target: a returned id, or sys.exit(1) with
\* the two stderr lines; read tells whether the configuration file was opened
Returned(id, read) ==
    [exit |-> FALSE, id |-> id, err |-> "none", listing |-> Empty, read |-> read]
Exited(err, listing, read) ==
    [exit |-> TRUE, id |-> Empty, err |-> err, listing |-> listing, read |-> read]

\* load_config(): the parsed document, or exit when the file is absent
load_config(c) ==
    IF ~c.exists
    THEN [exit |-> TRUE, read |-> FALSE, hasTargets |-> FALSE, targets |-> NoTargets]
    ELSE [exit |-> FALSE, read |-> TRUE, hasTargets |-> c.hasTargets,
          targets |-> c.targets]

\* config.get("targets", {})
ConfigGetTargets(doc) == IF doc.hasTargets THEN doc.targets ELSE NoTargets

\* the raw-identifier test of both scripts
LooksRaw(name) ==
    LET cleaned == StrReplace(name, Dash, Empty)
    IN  /\ Len(cleaned) = HexLen
        /\ \A i \in 1..Len(cleaned) : cleaned[i] \in HexChars

\* a resolver that consults the table before the shape of the name
resolve_target_TableFirst(name, c) ==
    IF c.exists /\ HasKey(ConfigGetTargets(c), name)
    THEN Returned(DictItem(ConfigGetTargets(c), name).id, TRUE)
    ELSE IF LooksRaw(name) THEN Returned(name, c.exists)
    ELSE Exited("unknown_target", AvailablePrefix, c.exists)

\* a resolver that returns the name where the id is meant
resolve_target_ReturnsName(name, c) ==
    IF LooksRaw(name) THEN Returned(name, FALSE)
    ELSE IF ~c.exists THEN Exited("config_not_found", Empty, FALSE)
    ELSE IF ~HasKey(ConfigGetTargets(c), name)
         THEN Exited("unknown_target",
                     AvailablePrefix \o StrJoin(CommaSpace, DictKeys(ConfigGetTargets(c))),
                     TRUE)
         ELSE Returned(name, TRUE)

\* a resolver whose error names only the first known target
resolve_target_ListsFirst(name, c) ==
    IF LooksRaw(name) THEN Returned(name, FALSE)
    ELSE IF ~c.exists THEN Exited("config_not_found", Empty, FALSE)
    ELSE IF ~HasKey(ConfigGetTargets(c), name)
         THEN Exited("unknown_target",
                     AvailablePrefix \o
                        (IF ConfigGetTargets(c) = <<>> THEN Empty
                         ELSE ConfigGetTargets(c)[1].name),
                     TRUE)
         ELSE Returned(DictItem(ConfigGetTargets(c), name).id, TRUE)

\* notion_client.resolve_target
resolve_target(name, c) ==
    IF LooksRaw(name) THEN Returned(name, FALSE)
    ELSE LET config == load_config(c)
             targets == ConfigGetTargets(config)
         IN  IF config.exit THEN Exited("config_not_found", Empty, FALSE)
             ELSE IF ~HasKey(targets, name)
                  THEN Exited("unknown_target",
                              AvailablePrefix \o StrJoin(CommaSpace, DictKeys(targets)),
                              TRUE)
                  ELSE Returned(DictItem(targets, name).id, TRUE)

\* create_project.resolve_target: the same steps, the file test inlined
resolve_target_cp(name, c) ==
    IF LooksRaw(name) THEN Returned(name, FALSE)
    ELSE IF ~c.exists THEN Exited("config_not_found", Empty, FALSE)
    ELSE LET targets == ConfigGetTargets(c)
         IN  IF ~HasKey(targets, name)
             THEN Exited("unknown_target",
                         AvailablePrefix \o StrJoin(CommaSpace, DictKeys(targets)),
                         TRUE)
             ELSE Returned(DictItem(targets, name).id, TRUE)

-----------------------------------------------------------------------------
(* Values the function-level specifications leave alone *)

NoArgs == [template |-> FALSE, title |-> Empty, name |-> Empty, icon |-> Empty,
           properties |-> "none", filter |-> "none", sorts |-> "none",
           blocks |-> "none"]
NoDoc == [t |-> "none", s |-> Empty, n |-> 0, kids |-> <<>>, keys |-> <<>>]
NoFile == [exists |-> FALSE, doc |-> NoDoc]
NoRes == [exit |-> FALSE, id |-> Empty, err |-> "none", listing |-> Empty,
          read |-> FALSE]
NoSent == [made |-> FALSE, api |-> "none", payload |-> NoDoc]

-----------------------------------------------------------------------------
(* SpecResolve: resolve_target applied to every name under every            *)
(* configuration document                                                   *)

InitResolve ==
    /\ cmd = "resolve_target"
    /\ token = "set"
    /\ target \in Names \cup TargetKeys
    /\ cfg \in Configs
    /\ args = NoArgs
    /\ tfile = NoFile
    /\ pc = "start"
    /\ events = <<>>
    /\ status = "running"
    /\ heap = <<>>
    /\ template = 0
    /\ body = 0
    /\ sent = NoSent
    /\ repl = <<>>
    /\ res = NoRes

\* notion_client.py calls its resolve_target
ResolveNotionClient ==
    /\ pc = "start"
    /\ res' = resolve_target(target, cfg)
    /\ pc' = "notion_client"
    /\ UNCHANGED <<cmd, token, target, cfg, args, tfile, events, status, heap,
                   template, body, sent, repl>>

\* create_project.py calls its resolve_target
ResolveCreateProject ==
    /\ pc = "start"
    /\ res' = resolve_target_cp(target, cfg)
    /\ pc' = "create_project"
    /\ UNCHANGED <<cmd, token, target, cfg, args, tfile, events, status, heap,
                   template, body, sent, repl>>

NextResolve == ResolveNotionClient \/ ResolveCreateProject

SpecResolve == InitResolve /\ [][NextResolve]_vars

Resolved == pc \in {"notion_client", "create_project"}

\* the shape of a raw identifier, stated on the string itself
HasRawShape(s) ==
    /\ Cardinality({i \in 1..Len(s) : s[i] # "-"}) = HexLen
    /\ \A i \in 1..Len(s) : s[i] = "-" \/ s[i] \in HexChars

IsTargetKey(name, c) ==
    c.exists /\ c.hasTargets /\ \E i \in 1..Len(c.targets) : c.targets[i].name = name

IdOfKey(name, c) ==
    c.targets[CHOOSE i \in 1..Len(c.targets) : c.targets[i].name = name].id

\* C1: a name of raw shape (32 characters 0-9a-f once the dashes are removed)
\* is returned unchanged, whatever the configuration document, which is not read.
C1_RawReturnedUnread ==
    (Resolved /\ HasRawShape(target)) =>
        /\ ~res.exit
        /\ res.id = target
        /\ ~res.read

\* reached: a raw name that is also a key of targets, mapped to another id
C1_Witness ==
    /\ Resolved /\ HasRawShape(target) /\ IsTargetKey(target, cfg)
    /\ IdOfKey(target, cfg) # target
    /\ res.id = target

\* C2 (as claimed): every key of targets resolves to its entry's id, keys of
\* raw shape included.
C2_Original ==
    (Resolved /\ IsTargetKey(target, cfg)) =>
        (~res.exit /\ res.id = IdOfKey(target, cfg))

\* C2 (amended): every key of targets that does not have the raw shape
\* resolves to its entry's id.
C2_FriendlyKeyResolves ==
    (Resolved /\ IsTargetKey(target, cfg) /\ ~HasRawShape(target)) =>
        (~res.exit /\ res.id = IdOfKey(target, cfg) /\ res.read)

C2_Witness ==
    /\ Resolved /\ target = ProjectDb /\ IsTargetKey(target, cfg)
    /\ Len(cfg.targets) = MaxTargets
    /\ res.id = Xyz

\* the friendly names of the configuration document (none without "targets")
KnownNames(c) == IF c.hasTargets THEN {c.targets[i].name : i \in 1..Len(c.targets)} ELSE {}

\* C3: a name that has not the raw shape and is no key of targets never
\* yields an identifier; with the document present the failure is the
\* unknown-target error, whose output names every key of targets (just the
\* prefix when there is none); the config-not-found error occurs only when
\* the document is absent.
C3_UnknownTargetFails ==
    (Resolved /\ ~HasRawShape(target) /\ ~IsTargetKey(target, cfg)) =>
        /\ res.exit
        /\ res.id = Empty
        /\ cfg.exists =>
              /\ res.err = "unknown_target"
              /\ \A k \in KnownNames(cfg) : IsSubstring(k, res.listing)
              /\ KnownNames(cfg) = {} => res.listing = AvailablePrefix
        /\ res.err = "config_not_found" => ~cfg.exists

C3_Witness ==
    /\ Resolved /\ target = MissingTarget
    /\ cfg.exists /\ Len(cfg.targets) = MaxTargets
    /\ res.err = "unknown_target"

C3_WitnessNoConfig ==
    /\ Resolved /\ target = MissingTarget /\ ~cfg.exists
    /\ res.err = "config_not_found"

-----------------------------------------------------------------------------
(* JSON trees and the heap of Python objects *)

\* json values: a string, another scalar (number, boolean, null as a
\* number), a list, a dict with its keys in order
VStr(x) == [t |-> "str", s |-> x, n |-> 0, kids |-> <<>>, keys |-> <<>>]
VNum(x) == [t |-> "num", s |-> Empty, n |-> x, kids |-> <<>>, keys |-> <<>>]
VList(xs) == [t |-> "list", s |-> Empty, n |-> 0, kids |-> xs, keys |-> <<>>]
VDict(ks, xs) == [t |-> "dict", s |-> Empty, n |-> 0, kids |-> xs, keys |-> ks]
\* None
VNone == [t |-> "none", s |-> Empty, n |-> 0, kids |-> <<>>, keys |-> <<>>]

\* a new object; its address is its index in the heap
Alloc(h, node) == [h |-> Append(h, node), a |-> Len(h) + 1]

RECURSIVE Build(_, _)
RECURSIVE BuildKids(_, _)
\* json.load: the objects of a parsed document
Build(h, v) ==
    IF v.t \in {"list", "dict"}
    THEN LET k == BuildKids(h, v.kids)
         IN  Alloc(k.h, [v EXCEPT !.kids = k.as])
    ELSE Alloc(h, v)
BuildKids(h, vs) ==
    IF vs = <<>> THEN [h |-> h, as |-> <<>>]
    ELSE LET first == Build(h, Head(vs))
             rest == BuildKids(first.h, Tail(vs))
         IN  [h |-> rest.h, as |-> <<first.a>> \o rest.as]

RECURSIVE Val(_, _)
\* the tree an object holds
Val(h, a) ==
    IF h[a].t \in {"list", "dict"}
    THEN [h[a] EXCEPT !.kids = [i \in 1..Len(h[a].kids) |-> Val(h, h[a].kids[i])]]
    ELSE h[a]

RECURSIVE deepcopy(_, _)
RECURSIVE deepcopyKids(_, _)
\* copy.deepcopy: new containers; strings and numbers are immutable and shared
deepcopy(h, a) ==
    IF h[a].t \in {"list", "dict"}
    THEN LET k == deepcopyKids(h, h[a].kids)
         IN  Alloc(k.h, [h[a] EXCEPT !.kids = k.as])
    ELSE [h |-> h, a |-> a]
deepcopyKids(h, as) ==
    IF as = <<>> THEN [h |-> h, as |-> <<>>]
    ELSE LET first == deepcopy(h, Head(as))
             rest == deepcopyKids(first.h, Tail(as))
         IN  [h |-> rest.h, as |-> <<first.a>> \o rest.as]

\* key in d
DictHas(node, key) == \E i \in 1..Len(node.keys) : node.keys[i] = key

DictIndex(node, key) == CHOOSE i \in 1..Len(node.keys) : node.keys[i] = key

\* d[key] = value, on the object itself: an existing key keeps its place
SetItem(h, d, key, value) ==
    IF DictHas(h[d], key)
    THEN [h EXCEPT ![d].kids[DictIndex(h[d], key)] = value]
    ELSE [h EXCEPT ![d].keys = Append(@, key), ![d].kids = Append(@, value)]

\* a sequence without its i-th element
Without(seq, i) == SubSeq(seq, 1, i - 1) \o SubSeq(seq, i + 1, Len(seq))

\* d.pop(key, None), on the object itself
PopItem(h, d, key) ==
    IF DictHas(h[d], key)
    THEN LET i == DictIndex(h[d], key)
         IN  [h EXCEPT ![d].keys = Without(@, i), ![d].kids = Without(@, i)]
    ELSE h

-----------------------------------------------------------------------------
(* Placeholder substitution *)

OpenBraces == <<"{", "{">>
CloseBraces == <<"}", "}">>

\* f"{{{{{key}}}}}"
Token(key) == OpenBraces \o key \o CloseBraces

\* the loop with its return inside it: only the first key is applied
ApplyReplacements_ReturnInLoop(s, r) ==
    IF r = <<>> THEN s ELSE StrReplace(s, Token(r[1].key), r[1].value)

RECURSIVE ApplyReplacements(_, _)
\* for key, value in replacements.items(): obj = obj.replace(token, value)
ApplyReplacements(s, r) ==
    IF r = <<>> THEN s
    ELSE ApplyReplacements(StrReplace(s, Token(Head(r).key), Head(r).value), Tail(r))

RECURSIVE replace_placeholders(_, _, _)
RECURSIVE replaceKids(_, _, _)

\* the same pass writing the results back into the list or dict it was given
replace_placeholders_InPlace(h, a, r) ==
    IF h[a].t = "str"
    THEN Alloc(h, VStr(ApplyReplacements(h[a].s, r)))
    ELSE IF h[a].t \in {"list", "dict"}
    THEN LET k == replaceKids(h, h[a].kids, r)
         IN  [h |-> [k.h EXCEPT ![a].kids = k.as], a |-> a]
    ELSE [h |-> h, a |-> a]

\* the same pass without its last line: a scalar falls through to None
replace_placeholders_NoFinalReturn(h, a, r) ==
    IF h[a].t = "str"
    THEN Alloc(h, VStr(ApplyReplacements(h[a].s, r)))
    ELSE IF h[a].t \in {"list", "dict"}
    THEN LET k == replaceKids(h, h[a].kids, r)
         IN  Alloc(k.h, [h[a] EXCEPT !.kids = k.as])
    ELSE Alloc(h, VNone)

\* replace_placeholders(obj, replacements): a new string, a new list, a new
\* dict with the same keys, or obj itself
replace_placeholders(h, a, r) ==
    IF h[a].t = "str"
    THEN Alloc(h, VStr(ApplyReplacements(h[a].s, r)))
    ELSE IF h[a].t \in {"list", "dict"}
    THEN LET k == replaceKids(h, h[a].kids, r)
         IN  Alloc(k.h, [h[a] EXCEPT !.kids = k.as])
    ELSE [h |-> h, a |-> a]

\* [replace_placeholders(item, replacements) for item in obj], and the dict
\* comprehension's values
replaceKids(h, as, r) ==
    IF as = <<>> THEN [h |-> h, as |-> <<>>]
    ELSE LET first == replace_placeholders(h, Head(as), r)
             rest == replaceKids(first.h, Tail(as), r)
         IN  [h |-> rest.h, as |-> <<first.a>> \o rest.as]

-----------------------------------------------------------------------------
(* Inputs: templates and replacement sets *)

PROJECT_NAME == <<"P", "R", "O", "J", "E", "C", "T", "_", "N", "A", "M", "E">>
DATE == <<"D", "A", "T", "E">>
OTHER_NAME == <<"O", "T", "H", "E", "R">>
Foo == <<"F", "o", "o">>
Launch == <<" ", "L", "a", "u", "n", "c", "h">>
Today == <<"2", "0", "2", "6", "-", "1", "1", "-", "0", "4">>
Rocket == <<"R">>

K_parent == <<"p", "a", "r", "e", "n", "t">>
K_page_id == <<"p", "a", "g", "e", "_", "i", "d">>
K_icon == <<"i", "c", "o", "n">>
K_type == <<"t", "y", "p", "e">>
K_emoji == <<"e", "m", "o", "j", "i">>
K_object == <<"o", "b", "j", "e", "c", "t">>
K_properties == <<"p", "r", "o", "p", "e", "r", "t", "i", "e", "s">>
K_title == <<"t", "i", "t", "l", "e">>
K_text == <<"t", "e", "x", "t">>
K_content == <<"c", "o", "n", "t", "e", "n", "t">>
K_children == <<"c", "h", "i", "l", "d", "r", "e", "n">>
K_Name == <<"N", "a", "m", "e">>
S_page == <<"p", "a", "g", "e">>
S_Untitled == <<"U", "n", "t", "i", "t", "l", "e", "d">>
S_UntitledDatabase == <<"U", "n", "t", "i", "t", "l", "e", "d", " ", "D", "a", "t",
                        "a", "b", "a", "s", "e">>

\* what a string leaf of a template is made of
Pieces == { Token(PROJECT_NAME), Token(DATE), Token(OTHER_NAME), Launch,
            <<"{">>, CloseBraces }

RECURSIVE Concat(_)
Concat(ps) == IF ps = <<>> THEN <<>> ELSE Head(ps) \o Concat(Tail(ps))

Strings == { Concat(ps) : ps \in UNION { [1..n -> Pieces] : n \in 0..MaxPieces } }

\* a template with the string x in it: a bare leaf, inside a list, under keys
\* (one of them spelled like a token, one the stray "object"), and nested as
\* the page payload is
DocsWith(x) ==
    { VStr(x),
      VList(<<VStr(x), VNum(7), VStr(Token(PROJECT_NAME) \o Launch)>>),
      VDict(<<K_title, Token(DATE), K_object, K_parent>>,
            <<VStr(x), VNum(7), VStr(S_page), VDict(<<K_page_id>>, <<VStr(Xyz)>>)>>),
      VDict(<<K_properties>>,
            <<VDict(<<K_title>>,
                <<VDict(<<K_title>>,
                    <<VList(<<VDict(<<K_text>>,
                                <<VDict(<<K_content>>, <<VStr(x)>>)>>)>>)>>)>>)>>) }

Docs == UNION { DocsWith(x) : x \in Strings } \cup { VNum(7), VList(<<>>), VDict(<<>>, <<>>) }

ReplKeys == { PROJECT_NAME, DATE }

ReplValues == { Foo, Token(DATE), Token(PROJECT_NAME) }

\* a replacements dict, in its iteration order; its keys are distinct
ReplSets ==
    { r \in UNION { [1..n -> [key : ReplKeys, value : ReplValues]] : n \in 0..2 } :
        \A i, j \in 1..Len(r) : r[i].key = r[j].key => i = j }

-----------------------------------------------------------------------------
(* create_project_page: the request body *)

\* {"page_id": parent_id}
ParentRef(id) == VDict(<<K_page_id>>, <<VStr(id)>>)

\* {"type": "emoji", "emoji": icon}
IconRef(icon) == VDict(<<K_type, K_emoji>>, <<VStr(K_emoji), VStr(icon)>>)

\* replacements = {"PROJECT_NAME": project_name, "DATE": date.today().isoformat()}
ProjectReplacements(project_name, today) ==
    << [key |-> PROJECT_NAME, value |-> project_name],
       [key |-> DATE, value |-> today] >>

\* body["parent"] = ...; body["icon"] = ...; body.pop("object", None)
MergeProjectFields(h, b, parent_id, icon) ==
    LET p == Build(h, ParentRef(parent_id))
        h1 == SetItem(p.h, b, K_parent, p.a)
        i == Build(h1, IconRef(icon))
        h2 == SetItem(i.h, b, K_icon, i.a)
    IN  PopItem(h2, b, K_object)

\* create_project_page from the loaded template to the body it sends;
\* ok is FALSE when the template is no JSON object (item assignment raises)
create_project_page(h, t, parent_id, project_name, icon, today) ==
    LET c == deepcopy(h, t)
        r == replace_placeholders(c.h, c.a, ProjectReplacements(project_name, today))
    IN  IF r.h[r.a].t = "dict"
        THEN [ok |-> TRUE, a |-> r.a,
              h |-> MergeProjectFields(r.h, r.a, parent_id, icon)]
        ELSE [ok |-> FALSE, a |-> 0, h |-> r.h]

ProjectNames == { Foo, Token(DATE), Empty }

Icons == { Rocket }

Dates == { Today }

-----------------------------------------------------------------------------
(* SpecSubst: replace_placeholders and create_project_page applied to every *)
(* template under every replacement set                                     *)

InitSubst ==
    /\ cmd = "replace_placeholders"
    /\ token = "set"
    /\ target = Uuid
    /\ cfg \in { c \in Configs : ~c.exists }
    /\ args = NoArgs
    /\ tfile \in [exists : {TRUE}, doc : Docs]
    /\ pc = "start"
    /\ events = <<>>
    /\ status = "running"
    /\ heap = Build(<<>>, tfile.doc).h
    /\ template = Build(<<>>, tfile.doc).a
    /\ body = 0
    /\ sent = NoSent
    /\ repl \in ReplSets
    /\ res = NoRes

\* body = replace_placeholders(template, repl)
Substitute ==
    /\ pc = "start"
    /\ LET r == replace_placeholders(heap, template, repl)
       IN  heap' = r.h /\ body' = r.a
    /\ pc' = "substituted"
    /\ UNCHANGED <<cmd, token, target, cfg, args, tfile, events, status,
                   template, sent, repl, res>>

\* the result substituted once more, with the same replacements
SubstituteAgain ==
    /\ pc = "substituted"
    /\ LET r == replace_placeholders(heap, body, repl)
       IN  heap' = r.h /\ body' = r.a
    /\ template' = body
    /\ pc' = "twice"
    /\ UNCHANGED <<cmd, token, target, cfg, args, tfile, events, status,
                   sent, repl, res>>

\* create_project_page builds its body from the loaded template
BuildProjectBody ==
    /\ pc = "start"
    /\ \E name \in ProjectNames, icon \in Icons, today \in Dates :
          LET r == create_project_page(heap, template, target, name, icon, today)
          IN  /\ heap' = r.h
              /\ body' = r.a
              /\ pc' = IF r.ok THEN "body_built" ELSE "type_error"
              /\ repl' = ProjectReplacements(name, today)
    /\ UNCHANGED <<cmd, token, target, cfg, args, tfile, events, status,
                   template, sent, res>>

NextSubst == Substitute \/ SubstituteAgain \/ BuildProjectBody

SpecSubst == InitSubst /\ [][NextSubst]_vars

\* where tok occurs in s
Occ(s, tok) ==
    { i \in 1..Len(s) : i + Len(tok) - 1 <= Len(s) /\ SubSeq(s, i, i + Len(tok) - 1) = tok }

\* s with every occurrence of tok replaced by val (occurrences of a {{key}}
\* token with a brace-free key cannot overlap one another)
EveryOccurrenceReplaced(s, tok, val) ==
    LET occ == Occ(s, tok)
        piece(i) == IF i \in occ THEN val
                    ELSE IF \E j \in occ : j < i /\ i < j + Len(tok) THEN <<>>
                    ELSE <<s[i]>>
    IN  Concat([i \in 1..Len(s) |-> piece(i)])

RECURSIVE KeysInOrder(_, _, _)
\* the keys of r applied one after another, from the i-th on
KeysInOrder(s, r, i) ==
    IF i > Len(r) THEN s
    ELSE KeysInOrder(EveryOccurrenceReplaced(s, Token(r[i].key), r[i].value), r, i + 1)

\* the placeholder names of the templates that r does not replace
UnreplacedNames(r) ==
    { PROJECT_NAME, DATE, OTHER_NAME } \ { r[i].key : i \in 1..Len(r) }

RECURSIVE SubstitutedFrom(_, _, _)
\* w is v with its string leaves substituted and nothing else changed
SubstitutedFrom(v, w, r) ==
    /\ w.t = v.t
    /\ w.keys = v.keys
    /\ Len(w.kids) = Len(v.kids)
    /\ v.t = "str" =>
          /\ w.s = KeysInOrder(v.s, r, 1)
          /\ \A k \in UnreplacedNames(r) :
                Cardinality(Occ(w.s, Token(k))) >= Cardinality(Occ(v.s, Token(k)))
    /\ v.t \notin {"str", "list", "dict"} => w = v
    /\ \A i \in 1..Len(v.kids) : SubstitutedFrom(v.kids[i], w.kids[i], r)

Substituted == pc \in {"substituted", "twice"}

\* C8: the result has the shape of the document (same keys in the same
\* order, same lengths, equal non-string leaves); every string leaf has every
\* occurrence of each {{key}} replaced, the keys taken in the order of the
\* replacements; keys of mappings are not substituted, and tokens of other
\* names are still there.
C8_Substitution ==
    Substituted => SubstitutedFrom(Val(heap, template), Val(heap, body), repl)

\* reached: two keys, the first one's value holding the second one's token,
\* a mapping key spelled {{DATE}} left as it is, and a changed leaf
C8_Witness ==
    /\ pc = "substituted"
    /\ Len(repl) = 2
    /\ repl[1].value = Token(repl[2].key)
    /\ tfile.doc.t = "dict"
    /\ DictHas(Val(heap, body), Token(DATE))
    /\ Cardinality(Occ(tfile.doc.kids[1].s, Token(repl[1].key))) = 2
    /\ Val(heap, body) # tfile.doc

\* C9: a call leaves every object that existed before it as it was: the
\* document handed to replace_placeholders, each of its nested mappings,
\* sequences and leaves, and the replacements; and create_project_page's
\* merge of parent and icon and removal of object leave the loaded template
\* as it was.
C9_InputsUnchanged ==
    [][ /\ \A a \in 1..Len(heap) : heap'[a] = heap[a]
        /\ Val(heap', template) = Val(heap, template)
        /\ pc' \in {"substituted", "twice"} => repl' = repl
        /\ pc' \in {"substituted", "body_built", "type_error"} =>
              Val(heap', template') = tfile.doc ]_vars

\* reached: create_project_page has merged parent and icon and dropped
\* object, and the template still has its own parent and object
C9_Witness ==
    /\ pc = "body_built"
    /\ DictHas(tfile.doc, K_object) /\ DictHas(tfile.doc, K_parent)
    /\ Val(heap, template) = tfile.doc
    /\ ~DictHas(Val(heap, body), K_object)
    /\ DictHas(Val(heap, body), K_icon)
    /\ Val(heap, body).kids[1] # tfile.doc.kids[1]

RECURSIVE NoTokenOf(_, _)
\* no string leaf of v holds the token of a key of r
NoTokenOf(v, r) ==
    /\ v.t = "str" => \A i \in 1..Len(r) : Occ(v.s, Token(r[i].key)) = {}
    /\ \A i \in 1..Len(v.kids) : NoTokenOf(v.kids[i], r)

\* C10: when no string leaf of the document holds the token of a key of the
\* replacements (so always for empty replacements), the result equals the
\* document, and substituting into that result again changes nothing.
C10_NothingToReplace ==
    /\ (Substituted /\ NoTokenOf(Val(heap, template), repl)) =>
            Val(heap, body) = Val(heap, template)
    /\ (Substituted /\ NoTokenOf(tfile.doc, repl)) => Val(heap, body) = tfile.doc
    /\ (Substituted /\ repl = <<>>) => Val(heap, body) = tfile.doc

\* reached: non-empty replacements, a document with a scalar and a token of
\* another name, substituted twice and still the document
C10_Witness ==
    /\ pc = "twice"
    /\ repl # <<>>
    /\ tfile.doc.t = "dict" /\ Len(tfile.doc.kids) > 1
    /\ Occ(tfile.doc.kids[1].s, Token(OTHER_NAME)) # {}
    /\ NoTokenOf(tfile.doc, repl)
    /\ Val(heap, body) = tfile.doc

-----------------------------------------------------------------------------
(* One CLI invocation *)

Commands == { "create-page", "create-db", "update-page", "query-db",
              "append-blocks", "get-page", "create-project" }

CreateCommands == { "create-page", "create-db", "create-project" }

Tokens == { "unset", "empty", "set" }

\* a client that is built without looking at the token
get_client_NoCheck(tok) == TRUE

\* get_client: `if not token` exits; TRUE when a client is returned
get_client(tok) == tok \notin {"unset", "empty"}

\* a loader that answers an empty template for a missing file
load_template_NoExit(f) ==
    [exit |-> FALSE, read |-> f.exists,
     doc |-> IF f.exists THEN f.doc ELSE VDict(<<>>, <<>>)]

\* load_template: exit when the file is missing, else its parsed content
load_template(f) ==
    IF ~f.exists THEN [exit |-> TRUE, read |-> FALSE, doc |-> NoDoc]
    ELSE [exit |-> FALSE, read |-> TRUE, doc |-> f.doc]

\* args.title or <default>
TitleOr(title, default) == IF title = Empty THEN default ELSE title

\* [{"type": "text", "text": {"content": ...}}]
TitleText(x) ==
    VList(<<VDict(<<K_type, K_text>>,
                  <<VStr(K_text), VDict(<<K_content>>, <<VStr(x)>>)>>)>>)

\* cmd_create_page's body without a template
DefaultPageBody(title) ==
    VDict(<<K_properties, K_children>>,
          <<VDict(<<K_title>>,
                  <<VDict(<<K_title>>, <<TitleText(TitleOr(title, S_Untitled))>>)>>),
            VList(<<>>)>>)

\* cmd_create_db's body without a template
DefaultDbBody(title) ==
    VDict(<<K_title, K_properties>>,
          <<TitleText(TitleOr(title, S_UntitledDatabase)),
            VDict(<<K_Name>>, <<VDict(<<K_title>>, <<VDict(<<>>, <<>>)>>)>>)>>)

\* cmd_create_page: body["parent"] = {"page_id": parent_id}
cmd_create_page_merge(h, b, parent_id) ==
    LET p == Build(h, ParentRef(parent_id))
    IN  SetItem(p.h, b, K_parent, p.a)

\* cmd_create_db: body["parent"] = {"page_id": parent_id}; body.pop("object", None)
cmd_create_db_merge(h, b, parent_id) ==
    LET p == Build(h, ParentRef(parent_id))
    IN  PopItem(SetItem(p.h, b, K_parent, p.a), b, K_object)

\* the JSON options a handler parses, in the order it parses them
JsonArgs(c, a) ==
    IF c = "update-page" THEN <<a.properties>>
    ELSE IF c = "append-blocks" THEN <<a.blocks>>
    ELSE IF c = "query-db"
         THEN (IF a.filter # "none" THEN <<a.filter>> ELSE <<>>)
              \o (IF a.sorts # "none" THEN <<a.sorts>> ELSE <<>>)
    ELSE <<>>

\* a handler that writes its output before it has asked the service
NextPc_PrintFirst(c, at) ==
    IF at = "start" THEN "resolve"
    ELSE IF at = "resolve"
         THEN (IF c = "create-project" THEN "banner"
               ELSE IF c \in {"create-page", "create-db"} THEN "template"
               ELSE IF c = "get-page" THEN "print"
               ELSE "parse")
    ELSE IF at = "banner" THEN "template"
    ELSE IF at = "template" THEN "merge"
    ELSE IF at \in {"merge", "parse"} THEN "print"
    ELSE IF at = "print" THEN "request"
    ELSE "done"

\* the statements of each handler, in order: the position after `at`
NextPc(c, at) ==
    IF at = "start" THEN "resolve"
    ELSE IF at = "resolve"
         THEN (IF c = "create-project" THEN "banner"
               ELSE IF c \in {"create-page", "create-db"} THEN "template"
               ELSE IF c = "get-page" THEN "request"
               ELSE "parse")
    ELSE IF at = "banner" THEN "template"
    ELSE IF at = "template" THEN "merge"
    ELSE IF at \in {"merge", "parse"} THEN "request"
    ELSE IF at = "request" THEN "print"
    ELSE "done"

\* the print calls of create_project's banner, and of each result report
BannerLines == 5
ProjectResultLines == 3
ResultLines(c) == IF c = "create-project" THEN ProjectResultLines ELSE 1

Ev(k, what) == [k |-> k, what |-> what]
Stdout(n) == [i \in 1..n |-> Ev("stdout", "line")]

\* the client method a handler calls
Api(c) ==
    IF c \in {"create-page", "create-project"} THEN "pages.create"
    ELSE IF c = "create-db" THEN "databases.create"
    ELSE IF c = "update-page" THEN "pages.update"
    ELSE IF c = "query-db" THEN "databases.query"
    ELSE IF c = "append-blocks" THEN "blocks.children.append"
    ELSE "pages.retrieve"

CliNames == { Uuid, ProjectDb, MissingTarget }

CliConfigs ==
    { c \in Configs :
        /\ Len(c.targets) <= 1
        /\ \A i \in 1..Len(c.targets) : c.targets[i] = [name |-> ProjectDb, id |-> Xyz] }

JsonGiven == { "valid", "malformed" }
JsonOptional == { "none", "valid", "malformed" }

ArgsOf(c) ==
    IF c \in {"create-page", "create-db"}
    THEN { [NoArgs EXCEPT !.template = TRUE] }
         \cup { [NoArgs EXCEPT !.title = x] : x \in {Empty, Foo} }
    ELSE IF c = "update-page"
    THEN { [NoArgs EXCEPT !.properties = j] : j \in JsonGiven }
    ELSE IF c = "append-blocks"
    THEN { [NoArgs EXCEPT !.blocks = j] : j \in JsonGiven }
    ELSE IF c = "query-db"
    THEN { [NoArgs EXCEPT !.filter = f, !.sorts = g] : f \in JsonOptional, g \in JsonOptional }
    ELSE IF c = "create-project"
    THEN { [NoArgs EXCEPT !.template = TRUE, !.name = x, !.icon = i] :
              x \in ProjectNames, i \in Icons }
    ELSE { NoArgs }

\* the templates on disk: JSON objects, one with a stray "object" and a
\* "parent" of its own
CliDocs == { d \in DocsWith(Token(PROJECT_NAME) \o Launch) : d.t = "dict" }

FilesOf(a) ==
    IF a.template THEN { NoFile } \cup [exists : {TRUE}, doc : CliDocs]
    ELSE { NoFile }

Init ==
    /\ cmd \in Commands
    /\ token \in Tokens
    /\ target \in CliNames
    /\ cfg \in CliConfigs
    /\ args \in ArgsOf(cmd)
    /\ tfile \in FilesOf(args)
    /\ pc = "start"
    /\ events = <<>>
    /\ status = "running"
    /\ heap = <<>>
    /\ template = 0
    /\ body = 0
    /\ sent = NoSent
    /\ repl = <<>>
    /\ res = NoRes

\* the handler stops: sys.exit(1) or an uncaught exception
Fail(what) ==
    /\ events' = Append(events, Ev("stderr", what))
    /\ status' = "failed"
    /\ pc' = "done"

\* the handler goes on to its next statement
Continue(evs) ==
    /\ events' = events \o evs
    /\ pc' = NextPc(cmd, pc)
    /\ status' = IF NextPc(cmd, pc) = "done" THEN "ok" ELSE status

\* client = get_client()
GetClient ==
    /\ pc = "start"
    /\ IF get_client(token) THEN Continue(<<>>) ELSE Fail("missing_credential")
    /\ UNCHANGED <<cmd, token, target, cfg, args, tfile, heap, template, body,
                   sent, repl, res>>

\* parent_id = resolve_target(args.target)
ResolveTarget ==
    /\ pc = "resolve"
    /\ LET r == IF cmd = "create-project" THEN resolve_target_cp(target, cfg)
                ELSE resolve_target(target, cfg)
           rd == IF r.read THEN <<Ev("config_read", "notion-config.json")>> ELSE <<>>
       IN  /\ res' = r
           /\ IF r.exit
              THEN /\ events' = events \o rd \o
                        (IF r.err = "unknown_target"
                         THEN <<Ev("stderr", r.err), Ev("stderr", "available_targets")>>
                         ELSE <<Ev("stderr", r.err)>>)
                   /\ status' = "failed"
                   /\ pc' = "done"
              ELSE Continue(rd)
    /\ UNCHANGED <<cmd, token, target, cfg, args, tfile, heap, template, body,
                   sent, repl>>

\* create_project.main's five print calls before create_project_page
Banner ==
    /\ pc = "banner"
    /\ Continue(Stdout(BannerLines))
    /\ UNCHANGED <<cmd, token, target, cfg, args, tfile, heap, template, body,
                   sent, repl, res>>

\* body = load_template(args.template)
LoadTemplate ==
    /\ pc = "template"
    /\ args.template
    /\ LET t == load_template(tfile)
           b == Build(heap, t.doc)
       IN  IF t.exit
           THEN /\ Fail("template_not_found")
                /\ UNCHANGED <<heap, template, body>>
           ELSE /\ Continue(IF t.read THEN <<Ev("template_read", "template")>> ELSE <<>>)
                /\ heap' = b.h
                /\ template' = b.a
                /\ body' = b.a
    /\ UNCHANGED <<cmd, token, target, cfg, args, tfile, sent, repl, res>>

\* the body built in the handler when no --template is given
DefaultBody ==
    /\ pc = "template"
    /\ ~args.template
    /\ LET b == Build(heap, IF cmd = "create-page" THEN DefaultPageBody(args.title)
                            ELSE DefaultDbBody(args.title))
       IN  heap' = b.h /\ body' = b.a
    /\ Continue(<<>>)
    /\ UNCHANGED <<cmd, token, target, cfg, args, tfile, template, sent, repl, res>>

\* the fields each create handler merges into its body
MergeBody ==
    /\ pc = "merge"
    /\ \E today \in Dates :
        IF cmd = "create-project"
        THEN LET r == create_project_page(heap, template, res.id, args.name, args.icon, today)
             IN  /\ heap' = r.h
                 /\ body' = r.a
                 /\ repl' = ProjectReplacements(args.name, today)
        ELSE /\ heap' = IF cmd = "create-page"
                        THEN cmd_create_page_merge(heap, body, res.id)
                        ELSE cmd_create_db_merge(heap, body, res.id)
             /\ UNCHANGED <<body, repl>>
    /\ Continue(<<>>)
    /\ UNCHANGED <<cmd, token, target, cfg, args, tfile, template, sent, res>>

\* json.loads of --properties, --blocks, --filter and --sorts: the first
\* malformed one raises
ParseJson ==
    /\ pc = "parse"
    /\ LET js == JsonArgs(cmd, args)
           bad == { i \in 1..Len(js) : js[i] = "malformed" }
           n == IF bad = {} THEN Len(js)
                ELSE CHOOSE i \in bad : \A j \in bad : i <= j
           parses == [i \in 1..n |-> Ev("json_parse", js[i])]
       IN  IF bad = {}
           THEN Continue(parses)
           ELSE /\ events' = events \o parses \o <<Ev("stderr", "malformed_input")>>
                /\ status' = "failed"
                /\ pc' = "done"
    /\ UNCHANGED <<cmd, token, target, cfg, args, tfile, heap, template, body,
                   sent, repl, res>>

\* what the handler hands to the client: the body of a create, the resolved
\* id of the other calls
Payload ==
    IF cmd \in CreateCommands THEN Val(heap, body) ELSE ParentRef(res.id)

\* the call of the API client; the service answers or the call raises
Request ==
    /\ pc = "request"
    /\ sent' = [made |-> TRUE, api |-> Api(cmd), payload |-> Payload]
    /\ \E answered \in BOOLEAN :
          IF answered
          THEN Continue(<<Ev("network", Api(cmd))>>)
          ELSE /\ events' = events \o <<Ev("network", Api(cmd)),
                                         Ev("stderr", "remote_operation_error")>>
               /\ status' = "failed"
               /\ pc' = "done"
    /\ UNCHANGED <<cmd, token, target, cfg, args, tfile, heap, template, body,
                   repl, res>>

\* print(json.dumps(result, ...)); create_project.main's three print calls
PrintResult ==
    /\ pc = "print"
    /\ Continue(Stdout(ResultLines(cmd)))
    /\ UNCHANGED <<cmd, token, target, cfg, args, tfile, heap, template, body,
                   sent, repl, res>>

Next ==
    \/ GetClient
    \/ ResolveTarget
    \/ Banner
    \/ LoadTemplate
    \/ DefaultBody
    \/ MergeBody
    \/ ParseJson
    \/ Request
    \/ PrintResult

Spec == Init /\ [][Next]_vars

Count(k) == Cardinality({ i \in 1..Len(events) : events[i].k = k })

\* every k1 event comes before every k2 event
Before(k1, k2) ==
    \A i, j \in 1..Len(events) : (events[i].k = k1 /\ events[j].k = k2) => i < j

\* the value under key of a mapping
ItemOf(v, key) == v.kids[CHOOSE i \in 1..Len(v.keys) : v.keys[i] = key]

CreateSent == sent.made /\ cmd \in CreateCommands

\* C4: the body handed to the remote create call holds no top-level
\* "object" field, and its "parent" is {page_id: <resolved identifier>}, in
\* create_project_page, cmd_create_page and cmd_create_db, with or without a
\* template.
C4_NoObjectParentSet ==
    CreateSent =>
        /\ ~DictHas(sent.payload, K_object)
        /\ DictHas(sent.payload, K_parent)
        /\ ItemOf(sent.payload, K_parent) = ParentRef(res.id)

\* C5 (as claimed): at most one configuration read, one template read, one
\* network request and one stdout write, in that order.
C5_Original ==
    /\ Count("config_read") <= 1
    /\ Count("template_read") <= 1
    /\ Count("network") <= 1
    /\ Count("stdout") <= 1
    /\ Before("config_read", "template_read")
    /\ Before("config_read", "network")
    /\ Before("config_read", "stdout")
    /\ Before("template_read", "network")
    /\ Before("template_read", "stdout")
    /\ Before("network", "stdout")

\* the stdout writes made before any template read or network request
EarlyStdout ==
    { i \in 1..Len(events) :
        /\ events[i].k = "stdout"
        /\ \A j \in 1..Len(events) :
              events[j].k \in {"template_read", "network"} => i < j }

\* C5 (amended): at most one configuration read, one template read and one
\* network request, in that order; a notion_client subcommand writes to
\* stdout at most once, after its network request; create_project writes its
\* five banner lines after resolving the target and before it reads the
\* template, and at most three lines more, after its network request.
C5_EffectsInOrder ==
    /\ Count("config_read") <= 1
    /\ Count("template_read") <= 1
    /\ Count("network") <= 1
    /\ Before("config_read", "template_read")
    /\ Before("config_read", "network")
    /\ Before("config_read", "stdout")
    /\ Before("template_read", "network")
    /\ cmd # "create-project" =>
          /\ Count("stdout") <= 1
          /\ Before("template_read", "stdout")
          /\ Before("network", "stdout")
    /\ cmd = "create-project" =>
          /\ Cardinality(EarlyStdout) \in {0, BannerLines}
          /\ Count("stdout") - Cardinality(EarlyStdout) \in {0, ProjectResultLines}
          /\ Count("stdout") > Cardinality(EarlyStdout) => Count("network") = 1
          /\ Count("template_read") + Count("network") > 0 =>
                Cardinality(EarlyStdout) = BannerLines

\* reached: create_project has read the configuration and the template,
\* asked the service and reported
C5_Witness ==
    /\ cmd = "create-project" /\ pc = "done" /\ status = "ok"
    /\ Count("config_read") = 1 /\ Count("template_read") = 1
    /\ Count("network") = 1
    /\ Count("stdout") = BannerLines + ProjectResultLines

\* the local errors, read off the inputs of the invocation
TokenAbsent == token # "set"
TargetUnresolvable == ~HasRawShape(target) /\ ~IsTargetKey(target, cfg)
TemplateMissing == args.template /\ ~tfile.exists
JsonMalformed ==
    \/ cmd = "update-page" /\ args.properties = "malformed"
    \/ cmd = "append-blocks" /\ args.blocks = "malformed"
    \/ cmd = "query-db" /\ (args.filter = "malformed" \/ args.sorts = "malformed")
LocalError == TokenAbsent \/ TargetUnresolvable \/ TemplateMissing \/ JsonMalformed

\* C6: an invocation with a local error (token absent, configuration missing
\* or target unknown on a friendly-name lookup, template file missing,
\* malformed --properties/--filter/--sorts/--blocks) ends in failure, and no
\* network request is made at any point of it.
C6_LocalErrorNoRequest ==
    LocalError =>
        /\ Count("network") = 0
        /\ ~sent.made
        /\ pc \notin {"request", "print"}
        /\ pc = "done" => status = "failed"

\* reached: query-db with a well-formed --filter and a malformed --sorts has
\* parsed both and failed
C6_Witness ==
    /\ cmd = "query-db" /\ args.filter = "valid" /\ args.sorts = "malformed"
    /\ ~TokenAbsent /\ ~TargetUnresolvable
    /\ pc = "done" /\ status = "failed"
    /\ Count("json_parse") = 2

\* reached: create_project with a missing template has failed after its banner
C6_WitnessTemplate ==
    /\ cmd = "create-project" /\ TemplateMissing
    /\ ~TokenAbsent /\ ~TargetUnresolvable
    /\ pc = "done" /\ status = "failed"

\* C7: with the token absent the invocation reports that and fails before
\* anything else: no configuration read, no template read, no JSON parsed,
\* no network request, no stdout write.
C7_TokenCheckedFirst ==
    TokenAbsent =>
        /\ pc \in {"start", "done"}
        /\ pc = "start" => events = <<>>
        /\ pc = "done" =>
              /\ status = "failed"
              /\ events = <<Ev("stderr", "missing_credential")>>
        /\ res = NoRes /\ heap = <<>> /\ ~sent.made

\* reached: token unset, target unknown and template missing at once
C7_Witness ==
    /\ token = "unset" /\ TargetUnresolvable /\ TemplateMissing
    /\ pc = "done" /\ status = "failed"

=============================================================================
